---- MODULE Spec2Model ----
(***************************************************************************)
(* IPMerge: CIDR block merging.                                            *)
(*                                                                         *)
(* Two source files are modelled:                                          *)
(*   src/ipmerge.py  - the command-line program (IPv4 only): readInput,    *)
(*                     the merge sweep and its own IP_Block class;         *)
(*   src/address.py  - the address library (IPv4 and IPv6): prefixToMask,  *)
(*                     IP_Block with construction-time validation, merge   *)
(*                     with the IPv6 dual flag.                            *)
(*                                                                         *)
(* Spec     is the program of src/ipmerge.py (read the input, sort, sweep).*)
(* SpecLib  is the library of src/address.py (construct two blocks, call   *)
(*          merge on them in either order, call prefixToMask).             *)
(*                                                                         *)
(* SpecRender is the rendering of src/address.py (build an IPv6 address    *)
(*          from 8 segments, call toString).                               *)
(*                                                                         *)
(* Address widths are scaled down (32 -> IPv4Bits, 128 -> IPv6Bits); all   *)
(* bit arithmetic is done on unbounded naturals, as Python does.           *)
(***************************************************************************)
EXTENDS Integers, Sequences, FiniteSets, TLC

\* ---------------------------------------------------------------- bounds
IPv4Bits == 2                 \* stands for IPv4 addressLength (32)
IPv6Bits == IPv4Bits + 2      \* stands for IPv6 addressLength (128)
MaxBlocks == 3                \* most input lines read by readInput

\* ------------------------------------------------- Python int operations
RECURSIVE Pow2(_)
Pow2(n) == IF n <= 0 THEN 1 ELSE 2 * Pow2(n - 1)

\* a | b, for a, b >= 0
RECURSIVE BitOr(_, _)
BitOr(a, b) ==
    IF a = 0 THEN b
    ELSE IF b = 0 THEN a
    ELSE (IF a % 2 = 1 \/ b % 2 = 1 THEN 1 ELSE 0) + 2 * BitOr(a \div 2, b \div 2)

\* a & ~m, for a, m >= 0 (Python's ~m is the infinite two's complement, so
\* every bit of a survives except those set in m)
RECURSIVE BitAndNot(_, _)
BitAndNot(a, m) ==
    IF a = 0 THEN 0
    ELSE (IF a % 2 = 1 /\ m % 2 = 0 THEN 1 ELSE 0) + 2 * BitAndNot(a \div 2, m \div 2)

\* x << n, for n >= 0
ShiftLeft(x, n) == x * Pow2(n)

\* ------------------------------------------------------ outcomes of calls
None == [kind |-> "None"]

Ret(outcome, value, cache) == [outcome |-> outcome, val |-> value, cache |-> cache]

\* ------------------------------------------------------- prefix masks
RECURSIVE generateMasksUpTo(_, _)
generateMasksUpTo(maxPrefix, i) ==
    IF i = 0 THEN <<0>>
    ELSE LET masks == generateMasksUpTo(maxPrefix, i - 1)
         IN  Append(masks, BitOr(masks[i], ShiftLeft(1, maxPrefix - i)))

\* Python index p of the list is index p + 1 of the sequence.
generateMasks(maxPrefix) ==
    IF maxPrefix >= 0 THEN generateMasksUpTo(maxPrefix, maxPrefix) ELSE <<>>

prefixToMask(cache, maxPrefix, prefix) ==
    IF prefix < 0 THEN Ret("InvalidPrefix", None, cache)
    ELSE LET masks  == IF maxPrefix \in DOMAIN cache THEN cache[maxPrefix]
                       ELSE generateMasks(maxPrefix)
             cache2 == IF maxPrefix \in DOMAIN cache THEN cache
                       ELSE [k \in DOMAIN cache \cup {maxPrefix} |->
                               IF k = maxPrefix THEN masks ELSE cache[k]]
         IN  IF prefix > Len(masks) THEN Ret("InvalidPrefix", None, cache2)
             ELSE IF prefix >= Len(masks) THEN Ret("IndexError", None, cache2)
             ELSE Ret("ok", masks[prefix + 1], cache2)

EmptyCache == [k \in {} |-> <<>>]

\* ------------------------------------------------ src/ipmerge.py: blocks
\* An IPv4_Address object: id is the object's identity (the class defines no
\* __eq__, so == on two addresses compares identities).
IPv4_Address_ipmerge(id, address) == [type |-> "IPv4", id |-> id, address |-> address]

getAddressLength(address) == IPv4Bits

IP_Block_init_ipmerge(cache, address, prefix) ==
    LET m == prefixToMask(cache, getAddressLength(address), prefix)
    IN  IF m.outcome # "ok" THEN m
        ELSE Ret("ok", [kind |-> "IP_Block", address |-> address,
                        prefix |-> prefix, mask |-> m.val], m.cache)

getFirstAddress(block) == block.address.address

getLastAddress(block) ==
    BitOr(block.address.address,
          ShiftLeft(1, getAddressLength(block.address) - block.prefix) - 1)

\* IP_Address has no __eq__: object identity.
AddressEq_ipmerge(a1, a2) == a1.id = a2.id

\* IP_Block.merge of ipmerge.py without the parent-alignment test.
IP_Block_merge_ipmerge_noAlignTest(cache, block1, block2) ==
    IF block1.address.type # block1.address.type THEN Ret("ok", None, cache)
    ELSE IF block1.mask = block2.mask THEN
        IF AddressEq_ipmerge(block1.address, block2.address)
        THEN IP_Block_init_ipmerge(cache, block1.address, block1.prefix)
        ELSE LET lower == IF getLastAddress(block1) = getFirstAddress(block2) - 1 THEN block1
                          ELSE IF getLastAddress(block2) = getFirstAddress(block1) - 1 THEN block2
                          ELSE None
             IN  IF lower # None
                 THEN IP_Block_init_ipmerge(cache, lower.address, lower.prefix - 1)
                 ELSE Ret("ok", None, cache)
    ELSE IF getFirstAddress(block2) < getFirstAddress(block1)
            /\ getLastAddress(block1) < getLastAddress(block2)
         THEN IP_Block_init_ipmerge(cache, block2.address, block2.prefix)
    ELSE IF getFirstAddress(block1) < getFirstAddress(block2)
            /\ getLastAddress(block2) < getLastAddress(block1)
         THEN IP_Block_init_ipmerge(cache, block1.address, block1.prefix)
    ELSE Ret("ok", None, cache)

IP_Block_merge_ipmerge(cache, block1, block2) ==
    IF block1.address.type # block1.address.type THEN Ret("ok", None, cache)
    ELSE IF block1.mask = block2.mask THEN
        IF AddressEq_ipmerge(block1.address, block2.address)
        THEN IP_Block_init_ipmerge(cache, block1.address, block1.prefix)
        ELSE LET lower == IF getLastAddress(block1) = getFirstAddress(block2) - 1 THEN block1
                          ELSE IF getLastAddress(block2) = getFirstAddress(block1) - 1 THEN block2
                          ELSE None
             IN  IF lower # None
                    /\ BitAndNot(lower.address.address, ShiftLeft(lower.mask, 1)) = 0
                 THEN IP_Block_init_ipmerge(cache, lower.address, lower.prefix - 1)
                 ELSE Ret("ok", None, cache)
    ELSE IF getFirstAddress(block2) < getFirstAddress(block1)
            /\ getLastAddress(block1) < getLastAddress(block2)
         THEN IP_Block_init_ipmerge(cache, block2.address, block2.prefix)
    ELSE IF getFirstAddress(block1) < getFirstAddress(block2)
            /\ getLastAddress(block2) < getLastAddress(block1)
         THEN IP_Block_init_ipmerge(cache, block1.address, block1.prefix)
    ELSE Ret("ok", None, cache)

\* ------------------------------------------------ src/address.py: blocks
IPv4_Address(addressInt) == [type |-> "IPv4", addressInt |-> addressInt, dual |-> FALSE]

IPv6_Address(addressInt, dual) == [type |-> "IPv6", addressInt |-> addressInt, dual |-> dual]

addressLength(address) == IF address.type = "IPv4" THEN IPv4Bits ELSE IPv6Bits

\* Address.__eq__
AddressEq(self, other) ==
    IF other.type = self.type THEN self.addressInt = other.addressInt ELSE FALSE

\* IPv6_Address.setDualAfterMerge: the address object self after the call.
setDualAfterMerge(self, address1, address2) ==
    IF address1.type = "IPv6" /\ address2.type = "IPv6"
    THEN [self EXCEPT !.dual = address1.dual /\ address2.dual]
    ELSE self

IP_Block_init(cache, address, prefix) ==
    LET m == prefixToMask(cache, addressLength(address), prefix)
    IN  IF m.outcome # "ok" THEN m
        ELSE IF BitAndNot(address.addressInt, m.val) # 0
        THEN Ret("InvalidNetworkAddress", None, m.cache)
        ELSE Ret("ok", [kind |-> "IP_Block", address |-> address,
                        prefix |-> prefix, mask |-> m.val], m.cache)

firstAddress(block) == block.address.addressInt

lastAddress(block) ==
    BitOr(block.address.addressInt,
          ShiftLeft(1, addressLength(block.address) - block.prefix) - 1)

\* The outcome of merge together with the two argument objects as the call
\* leaves them (the returned block shares its address object with one of them).
MergeRet(ret, block1, block2) ==
    [outcome |-> ret.outcome, val |-> ret.val, cache |-> ret.cache,
     block1 |-> block1, block2 |-> block2]

\* "if type(x.address) == IPv6_Address: x.address.setDualAfterMerge(a1, a2)"
DualSet(x, block1, block2) ==
    IF x.address.type = "IPv6"
    THEN [x EXCEPT !.address = setDualAfterMerge(x.address, block1.address, block2.address)]
    ELSE x

\* IP_Block.merge of address.py without the parent-alignment test.
IP_Block_merge_noAlignTest(cache, block1, block2) ==
    IF block1.address.type # block1.address.type
    THEN MergeRet(Ret("ok", None, cache), block1, block2)
    ELSE IF block1.mask = block2.mask THEN
        IF AddressEq(block1.address, block2.address)
        THEN LET b1 == DualSet(block1, block1, block2)
             IN  MergeRet(IP_Block_init(cache, b1.address, b1.prefix), b1, block2)
        ELSE LET lower == IF lastAddress(block1) = firstAddress(block2) - 1 THEN 1
                          ELSE IF lastAddress(block2) = firstAddress(block1) - 1 THEN 2
                          ELSE 0
                 lowerBlock == IF lower = 1 THEN block1 ELSE block2
             IN  IF lower # 0
                 THEN LET l == DualSet(lowerBlock, block1, block2)
                      IN  MergeRet(IP_Block_init(cache, l.address, l.prefix - 1),
                                   IF lower = 1 THEN l ELSE block1,
                                   IF lower = 2 THEN l ELSE block2)
                 ELSE MergeRet(Ret("ok", None, cache), block1, block2)
    ELSE IF firstAddress(block2) <= firstAddress(block1)
            /\ lastAddress(block1) <= lastAddress(block2)
         THEN LET b2 == DualSet(block2, block1, block2)
              IN  MergeRet(IP_Block_init(cache, b2.address, b2.prefix), block1, b2)
    ELSE IF firstAddress(block1) <= firstAddress(block2)
            /\ lastAddress(block2) <= lastAddress(block1)
         THEN LET b1 == DualSet(block1, block1, block2)
              IN  MergeRet(IP_Block_init(cache, b1.address, b1.prefix), b1, block2)
    ELSE MergeRet(Ret("ok", None, cache), block1, block2)

IP_Block_merge(cache, block1, block2) ==
    IF block1.address.type # block1.address.type
    THEN MergeRet(Ret("ok", None, cache), block1, block2)
    ELSE IF block1.mask = block2.mask THEN
        IF AddressEq(block1.address, block2.address)
        THEN LET b1 == DualSet(block1, block1, block2)
             IN  MergeRet(IP_Block_init(cache, b1.address, b1.prefix), b1, block2)
        ELSE LET lower == IF lastAddress(block1) = firstAddress(block2) - 1 THEN 1
                          ELSE IF lastAddress(block2) = firstAddress(block1) - 1 THEN 2
                          ELSE 0
                 lowerBlock == IF lower = 1 THEN block1 ELSE block2
             IN  IF lower # 0
                    /\ BitAndNot(lowerBlock.address.addressInt, ShiftLeft(lowerBlock.mask, 1)) = 0
                 THEN LET l == DualSet(lowerBlock, block1, block2)
                      IN  MergeRet(IP_Block_init(cache, l.address, l.prefix - 1),
                                   IF lower = 1 THEN l ELSE block1,
                                   IF lower = 2 THEN l ELSE block2)
                 ELSE MergeRet(Ret("ok", None, cache), block1, block2)
    ELSE IF firstAddress(block2) <= firstAddress(block1)
            /\ lastAddress(block1) <= lastAddress(block2)
         THEN LET b2 == DualSet(block2, block1, block2)
              IN  MergeRet(IP_Block_init(cache, b2.address, b2.prefix), block1, b2)
    ELSE IF firstAddress(block1) <= firstAddress(block2)
            /\ lastAddress(block2) <= lastAddress(block1)
         THEN LET b1 == DualSet(block1, block1, block2)
              IN  MergeRet(IP_Block_init(cache, b1.address, b1.prefix), b1, block2)
    ELSE MergeRet(Ret("ok", None, cache), block1, block2)

\* blocks.sort(key=lambda block: block.address.address): a stable sort.
RECURSIVE InsertSorted(_, _)
InsertSorted(sorted, block) ==
    IF sorted = <<>> THEN <<block>>
    ELSE IF sorted[Len(sorted)].address.address <= block.address.address
         THEN Append(sorted, block)
         ELSE Append(InsertSorted(SubSeq(sorted, 1, Len(sorted) - 1), block),
                     sorted[Len(sorted)])

RECURSIVE SortByAddress(_)
SortByAddress(seq) ==
    IF seq = <<>> THEN <<>>
    ELSE InsertSorted(SortByAddress(SubSeq(seq, 1, Len(seq) - 1)), seq[Len(seq)])

\* ------------------------------------------------------------- state
VARIABLES
    masksForPrefixes,   \* _masksForPrefixes: bit length -> list of masks
    pc,                 \* ipmerge.py main: "read", "sort", "sweep", "done", "exit"
    blocks,             \* ipmerge.py: the IPv4 family group (Python list, 0-based index + 1)
    inputBlocks,        \* the family group as readInput returned it
    index,              \* ipmerge.py merge: the sweep's cursor (Python index)
    lpc,                \* address.py caller: "construct", "merge", "done", "error"
    block1,             \* address.py: first IP_Block object (None before construction)
    block2,             \* address.py: second IP_Block object
    merged12,           \* what IP_Block.merge(block1, block2) returned
    merged21,           \* what IP_Block.merge(block2, block1) returned
    lastCall,           \* the last constructor / prefixToMask call and its outcome
    rpc,                \* address.py rendering caller: "new", "built", "rendered"
    address6,           \* address.py: an IPv6_Address object (None before construction)
    renderArgs,         \* the arguments of the last toString call
    rendered            \* the string the last toString call returned

progVars == <<pc, blocks, inputBlocks, index>>
libVars == <<lpc, block1, block2, merged12, merged21, lastCall>>
renderVars == <<rpc, address6, renderArgs, rendered>>
vars == <<masksForPrefixes, pc, blocks, inputBlocks, index,
          lpc, block1, block2, merged12, merged21, lastCall,
          rpc, address6, renderArgs, rendered>>

NotCalled == [kind |-> "NotCalled"]

\* ------------------------------------------- src/ipmerge.py: the program
NoPrefix == -2          \* a line without "/prefix"

LineAddresses == 0 .. (Pow2(IPv4Bits) - 1)
LinePrefixes == {NoPrefix} \cup (-1 .. (IPv4Bits + 1))

Init ==
    /\ masksForPrefixes = EmptyCache
    /\ pc = "read"
    /\ blocks = <<>>
    /\ inputBlocks = <<>>
    /\ index = 0
    /\ lpc = "unused"
    /\ block1 = None
    /\ block2 = None
    /\ merged12 = NotCalled
    /\ merged21 = NotCalled
    /\ lastCall = NotCalled
    /\ rpc = "unused"
    /\ address6 = None
    /\ renderArgs = NotCalled
    /\ rendered = <<>>

\* One line of an input file: IP_Block.parse and the append to the group.
ReadLine(addressInt, linePrefix) ==
    /\ pc = "read"
    /\ Len(blocks) < MaxBlocks
    /\ LET address == IPv4_Address_ipmerge(Len(blocks) + 1, addressInt)
           prefix  == IF linePrefix = NoPrefix THEN getAddressLength(address)
                      ELSE linePrefix
       IN  IF prefix < 0 \/ prefix > getAddressLength(address)
           THEN /\ pc' = "exit"
                /\ UNCHANGED <<masksForPrefixes, blocks, inputBlocks, index, libVars, renderVars>>
           ELSE LET r == IP_Block_init_ipmerge(masksForPrefixes, address, prefix)
                IN  /\ masksForPrefixes' = r.cache
                    /\ IF r.outcome = "ok"
                       THEN /\ blocks' = Append(blocks, r.val)
                            /\ inputBlocks' = Append(inputBlocks, r.val)
                            /\ pc' = pc
                       ELSE /\ pc' = "exit"
                            /\ UNCHANGED <<blocks, inputBlocks>>
                    /\ UNCHANGED <<index, libVars, renderVars>>

\* End of the input files: main calls merge(blocks).
EndOfInput ==
    /\ pc = "read"
    /\ pc' = "sort"
    /\ UNCHANGED <<masksForPrefixes, blocks, inputBlocks, index, libVars, renderVars>>

\* merge(): blocks.sort(...); index = 1
SortBlocks ==
    /\ pc = "sort"
    /\ blocks' = SortByAddress(blocks)
    /\ index' = 1
    /\ pc' = "sweep"
    /\ UNCHANGED <<masksForPrefixes, inputBlocks, libVars, renderVars>>

\* The list after blocks.pop(i); blocks.pop(i); blocks.insert(i, merged),
\* i being a Python index.
ReplacePair(seq, i, merged) ==
    SubSeq(seq, 1, i) \o <<merged>> \o SubSeq(seq, i + 3, Len(seq))

\* The cursor after a merge, forgetting to step back.
CursorAfterMerge_noStepBack(i) == i

\* "index -= 1 ... if index == 0: index = 1", from the cursor i before the merge.
CursorAfterMerge(i) == IF i - 1 = 0 THEN 1 ELSE i - 1

\* One iteration of "while index < len(blocks)".
SweepStep ==
    /\ pc = "sweep"
    /\ index < Len(blocks)
    /\ LET r == IP_Block_merge_ipmerge(masksForPrefixes, blocks[index], blocks[index + 1])
       IN  /\ masksForPrefixes' = r.cache
           /\ IF r.outcome # "ok"
              THEN /\ pc' = "exit"
                   /\ UNCHANGED <<blocks, index>>
              ELSE IF r.val = None
              THEN /\ index' = index + 1
                   /\ UNCHANGED <<blocks, pc>>
              ELSE /\ blocks' = ReplacePair(blocks, index - 1, r.val)
                   /\ index' = CursorAfterMerge(index)
                   /\ pc' = pc
    /\ UNCHANGED <<inputBlocks, libVars, renderVars>>

\* The loop condition fails: merge() returns.
SweepEnd ==
    /\ pc = "sweep"
    /\ ~(index < Len(blocks))
    /\ pc' = "done"
    /\ UNCHANGED <<masksForPrefixes, blocks, inputBlocks, index, libVars, renderVars>>

Next ==
    \/ \E a \in LineAddresses, p \in LinePrefixes : ReadLine(a, p)
    \/ EndOfInput
    \/ SortBlocks
    \/ SweepStep
    \/ SweepEnd

Spec == Init /\ [][Next]_vars

\* ------------------------------------------------ properties: the program
\* The addresses a block of ipmerge.py covers.
BlockRange(block) == getFirstAddress(block) .. getLastAddress(block)

Covered(seq) == UNION {BlockRange(seq[i]) : i \in 1 .. Len(seq)}

\* The base address has no bit set below the prefix.
IsNetworkAligned(block) ==
    block.address.address % Pow2(getAddressLength(block.address) - block.prefix) = 0

AllAligned(seq) == \A i \in 1 .. Len(seq) : IsNetworkAligned(seq[i])

SameNetwork(b1, b2) ==
    b1.address.address = b2.address.address /\ b1.prefix = b2.prefix

RangeContains(outer, inner) ==
    /\ getFirstAddress(outer) <= getFirstAddress(inner)
    /\ getLastAddress(inner) <= getLastAddress(outer)

\* The two halves of one parent network (prefix - 1).
HalvesOfParent(b1, b2) ==
    /\ b1.prefix = b2.prefix
    /\ b1.prefix >= 1
    /\ b1.address.address # b2.address.address
    /\ LET size == Pow2(getAddressLength(b1.address) - b1.prefix + 1)
       IN  b1.address.address \div size = b2.address.address \div size

\* C1: for a network-aligned input, the sequence covers, in every state of
\* the run (after the sort, after each step of the sweep and at the end),
\* exactly the addresses the input blocks cover.
C1_CoveragePreserved ==
    AllAligned(inputBlocks) => Covered(blocks) = Covered(inputBlocks)

C1_Witness ==
    /\ pc = "done"
    /\ AllAligned(inputBlocks)
    /\ Len(inputBlocks) >= 3
    /\ Len(blocks) = 1

\* C2: for a network-aligned input, the sequence the sweep leaves is minimal:
\* no two positions hold equal blocks, nested ranges, overlapping ranges or
\* the two halves of one parent network.
C2_OutputMinimal ==
    (pc = "done" /\ AllAligned(inputBlocks)) =>
        \A i, j \in 1 .. Len(blocks) :
            i # j =>
                /\ ~SameNetwork(blocks[i], blocks[j])
                /\ ~RangeContains(blocks[i], blocks[j])
                /\ BlockRange(blocks[i]) \cap BlockRange(blocks[j]) = {}
                /\ ~HalvesOfParent(blocks[i], blocks[j])

\* C3: a step of the sweep whose two blocks are the same network (same base
\* address value and prefix) merges them into one block with that base
\* address and prefix.
C3_IdenticalBlocksMerge ==
    [][(SweepStep /\ SameNetwork(blocks[index], blocks[index + 1])) =>
          (/\ Len(blocks') = Len(blocks) - 1
           /\ SameNetwork(blocks'[index], blocks[index]))]_vars

\* C4: a step of the sweep whose two network-aligned blocks have differing
\* prefixes replaces them by the containing block when one range contains the
\* other (non-strictly), and leaves them alone when neither does.
C4_ContainmentMerges ==
    [][(/\ SweepStep
        /\ IsNetworkAligned(blocks[index])
        /\ IsNetworkAligned(blocks[index + 1])
        /\ blocks[index].prefix # blocks[index + 1].prefix) =>
          LET b1 == blocks[index]
              b2 == blocks[index + 1]
          IN  IF RangeContains(b1, b2)
              THEN Len(blocks') = Len(blocks) - 1 /\ SameNetwork(blocks'[index], b1)
              ELSE IF RangeContains(b2, b1)
              THEN Len(blocks') = Len(blocks) - 1 /\ SameNetwork(blocks'[index], b2)
              ELSE blocks' = blocks]_vars

\* C8: every block of the family group is network-aligned (a line such as
\* 10.0.0.1/24 never enters the group).
C8_GroupBlocksAligned == AllAligned(blocks)

\* What is left of the sweep: it is never negative while the sweep runs.
SweepMeasure(seq, cursor) == 2 * Len(seq) - cursor + 1

\* C10: the sweep terminates: the cursor is at least 1 and never beyond the
\* live sequence; every step either replaces the pair by one block and moves
\* the cursor back by one (not below 1), or advances the cursor by one, or
\* ends the loop with the cursor at or past the length of the sequence; and
\* every step of the loop decreases a measure that is never negative, so the
\* loop cannot run forever.
C10_SweepTerminates ==
    /\ [](pc = "sweep" =>
            /\ 1 <= index
            /\ (index <= Len(blocks) \/ index = 1)
            /\ SweepMeasure(blocks, index) >= 0)
    /\ [](pc = "done" => index >= Len(blocks))
    /\ [][pc = "sweep" =>
            \/ /\ pc' = "sweep"
               /\ Len(blocks') = Len(blocks) - 1
               /\ index' = (IF index >= 2 THEN index - 1 ELSE 1)
               /\ SweepMeasure(blocks', index') < SweepMeasure(blocks, index)
            \/ /\ pc' = "sweep"
               /\ blocks' = blocks
               /\ index' = index + 1
               /\ SweepMeasure(blocks', index') < SweepMeasure(blocks, index)
            \/ /\ pc' = "done"
               /\ index >= Len(blocks)
               /\ blocks' = blocks /\ index' = index]_vars

C10_Witness ==
    /\ pc = "done"
    /\ Len(inputBlocks) >= 3
    /\ Len(blocks) = 2
    /\ index = 2

\* ------------------------------------------ src/address.py: the library
LibTypes == {"IPv4", "IPv6"}
LibAddresses(type) == 0 .. (Pow2(IF type = "IPv4" THEN IPv4Bits ELSE IPv6Bits) - 1)
LibDuals(type) == IF type = "IPv4" THEN {FALSE} ELSE BOOLEAN
LibPrefixes == -1 .. (IPv6Bits + 2)
LibLengths == {IPv4Bits, IPv6Bits}

LibInit ==
    /\ masksForPrefixes = EmptyCache
    /\ pc = "unused"
    /\ blocks = <<>>
    /\ inputBlocks = <<>>
    /\ index = 0
    /\ lpc = "construct"
    /\ block1 = None
    /\ block2 = None
    /\ merged12 = NotCalled
    /\ merged21 = NotCalled
    /\ lastCall = NotCalled
    /\ rpc = "unused"
    /\ address6 = None
    /\ renderArgs = NotCalled
    /\ rendered = <<>>

\* IP_Block(address, prefix), called directly: the first successful call makes
\* block1, the second block2; a raised exception ends the run.
Construct(type, addressInt, dual, prefix) ==
    /\ lpc = "construct"
    /\ LET address == IF type = "IPv4" THEN IPv4_Address(addressInt)
                      ELSE IPv6_Address(addressInt, dual)
           r == IP_Block_init(masksForPrefixes, address, prefix)
       IN  /\ masksForPrefixes' = r.cache
           /\ lastCall' = [kind |-> "IP_Block", address |-> address,
                           prefix |-> prefix, outcome |-> r.outcome]
           /\ IF r.outcome # "ok"
              THEN /\ lpc' = "error"
                   /\ UNCHANGED <<block1, block2>>
              ELSE IF block1 = None
              THEN /\ block1' = r.val
                   /\ UNCHANGED <<block2, lpc>>
              ELSE /\ block2' = r.val
                   /\ lpc' = "merge"
                   /\ UNCHANGED block1
    /\ UNCHANGED <<merged12, merged21, progVars, renderVars>>

\* prefixToMask(maxPrefix, prefix), called directly.
CallPrefixToMask(maxPrefix, prefix) ==
    /\ lpc = "construct"
    /\ block1 = None
    /\ LET r == prefixToMask(masksForPrefixes, maxPrefix, prefix)
       IN  /\ masksForPrefixes' = r.cache
           /\ lastCall' = [kind |-> "prefixToMask", maxPrefix |-> maxPrefix,
                           prefix |-> prefix, outcome |-> r.outcome, val |-> r.val]
    /\ lpc' = "done"
    /\ UNCHANGED <<block1, block2, merged12, merged21, progVars, renderVars>>

\* IP_Block.merge(block1, block2)
Merge12 ==
    /\ lpc = "merge"
    /\ merged12 = NotCalled
    /\ LET r == IP_Block_merge(masksForPrefixes, block1, block2)
       IN  /\ masksForPrefixes' = r.cache
           /\ merged12' = IF r.outcome = "ok" THEN r.val ELSE [kind |-> r.outcome]
           /\ block1' = r.block1
           /\ block2' = r.block2
    /\ UNCHANGED <<lpc, merged21, lastCall, progVars, renderVars>>

\* IP_Block.merge(block2, block1)
Merge21 ==
    /\ lpc = "merge"
    /\ merged21 = NotCalled
    /\ LET r == IP_Block_merge(masksForPrefixes, block2, block1)
       IN  /\ masksForPrefixes' = r.cache
           /\ merged21' = IF r.outcome = "ok" THEN r.val ELSE [kind |-> r.outcome]
           /\ block2' = r.block1
           /\ block1' = r.block2
    /\ UNCHANGED <<lpc, merged12, lastCall, progVars, renderVars>>

LibNext ==
    \/ \E type \in LibTypes : \E a \in LibAddresses(type), d \in LibDuals(type), p \in LibPrefixes :
          Construct(type, a, d, p)
    \/ \E n \in LibLengths, p \in LibPrefixes : CallPrefixToMask(n, p)
    \/ Merge12
    \/ Merge21

SpecLib == LibInit /\ [][LibNext]_vars

\* ------------------------------------------------ properties: the library
\* The block of ipmerge.py with the base address and prefix of a block of
\* address.py, its address being the object id.
AsIpmergeBlock(block, id) ==
    [kind |-> "IP_Block", address |-> IPv4_Address_ipmerge(id, block.address.addressInt),
     prefix |-> block.prefix, mask |-> block.mask]

\* One range ends right before the other begins.
BitAdjacent(b1, b2) ==
    \/ lastAddress(b1) + 1 = firstAddress(b2)
    \/ lastAddress(b2) + 1 = firstAddress(b1)

LowerBase(b1, b2) ==
    IF b1.address.addressInt <= b2.address.addressInt
    THEN b1.address.addressInt ELSE b2.address.addressInt

\* The lower base address is a network address for prefix - 1.
LowerAlignedToParent(b1, b2) ==
    /\ b1.prefix >= 1
    /\ LowerBase(b1, b2) % Pow2(addressLength(b1.address) - b1.prefix + 1) = 0

\* The two blocks are the two halves of one parent network.
LibHalvesOfParent(b1, b2) ==
    /\ b1.prefix >= 1
    /\ b1.address.addressInt # b2.address.addressInt
    /\ LET size == Pow2(addressLength(b1.address) - b1.prefix + 1)
       IN  b1.address.addressInt \div size = b2.address.addressInt \div size

\* What merge must return for two blocks of equal prefix and different bases.
IsParentOrNone(result, b1, b2) ==
    IF BitAdjacent(b1, b2) /\ LowerAlignedToParent(b1, b2)
    THEN /\ result.kind = "IP_Block"
         /\ result.prefix = b1.prefix - 1
         /\ (IF "addressInt" \in DOMAIN result.address
             THEN result.address.addressInt ELSE result.address.address) = LowerBase(b1, b2)
         /\ result.address.type = b1.address.type
    ELSE result = None

\* C5: for two blocks of one family with equal prefix and different base
\* addresses, merge (of address.py, in both argument orders, and of
\* ipmerge.py) returns the block (lower base, prefix - 1) exactly when the
\* ranges are bit-adjacent and the lower base is aligned to prefix - 1, which
\* is exactly when they are the two halves of one parent; otherwise it
\* returns no merge.
C5_AdjacentHalvesMerge ==
    (/\ lpc = "merge"
     /\ block1.address.type = block2.address.type
     /\ block1.prefix = block2.prefix
     /\ block1.address.addressInt # block2.address.addressInt) =>
        /\ (BitAdjacent(block1, block2) /\ LowerAlignedToParent(block1, block2))
              <=> LibHalvesOfParent(block1, block2)
        /\ merged12 # NotCalled => IsParentOrNone(merged12, block1, block2)
        /\ merged21 # NotCalled => IsParentOrNone(merged21, block1, block2)
        /\ block1.address.type = "IPv4" =>
              IsParentOrNone(IP_Block_merge_ipmerge(masksForPrefixes,
                                 AsIpmergeBlock(block1, 1), AsIpmergeBlock(block2, 2)).val,
                             block1, block2)

C5_Witness ==
    /\ lpc = "merge"
    /\ block1.address.type = "IPv6"
    /\ block2.address.type = "IPv6"
    /\ block1.prefix = block2.prefix
    /\ block1.address.addressInt # block2.address.addressInt
    /\ merged12 # NotCalled
    /\ merged12.kind = "IP_Block"
    /\ merged21 = merged12

\* C6: merge is symmetric: merge(block1, block2) and merge(block2, block1)
\* are both no merge, or both a block of the same family, base address and
\* prefix.
C6_MergeSymmetric ==
    (merged12 # NotCalled /\ merged21 # NotCalled) =>
        \/ merged12 = None /\ merged21 = None
        \/ /\ merged12.kind = "IP_Block"
           /\ merged21.kind = "IP_Block"
           /\ merged12.address.type = merged21.address.type
           /\ merged12.address.addressInt = merged21.address.addressInt
           /\ merged12.prefix = merged21.prefix

\* C7: a call of merge leaves both argument blocks as they were: base
\* address, prefix and dual flag.
C7_MergeKeepsInputs ==
    [][(Merge12 \/ Merge21) => (block1' = block1 /\ block2' = block2)]_vars

\* C9: prefixToMask ends in InvalidPrefix for every prefix below 0 or above
\* the bit length, and otherwise returns the mask with the top prefix bits of
\* the bit length set.
C9_PrefixToMaskContract ==
    lastCall.kind = "prefixToMask" =>
        IF lastCall.prefix < 0 \/ lastCall.prefix > lastCall.maxPrefix
        THEN lastCall.outcome = "InvalidPrefix"
        ELSE /\ lastCall.outcome = "ok"
             /\ lastCall.val = Pow2(lastCall.maxPrefix)
                                 - Pow2(lastCall.maxPrefix - lastCall.prefix)

\* C12: for two blocks of different families (one IPv4, one IPv6) merge
\* returns no merge, whatever their prefixes and ranges are.
C12_DifferentFamiliesNoMerge ==
    /\ (merged12 # NotCalled /\ block1.address.type # block2.address.type) =>
          merged12 = None
    /\ (merged21 # NotCalled /\ block1.address.type # block2.address.type) =>
          merged21 = None

\* ----------------------------------- src/address.py: rendering of IPv6
\* A string is a sequence of tokens: separators, hexadecimal groups (the
\* value, the width it is right-justified to with "0", its letter case) and
\* decimal groups.
Colon == [kind |-> "sep", ch |-> ":"]
Dot == [kind |-> "sep", ch |-> "."]

\* hex(x).removeprefix("0x")
HexGroup(x) == [kind |-> "hex", value |-> x, width |-> 0, upper |-> FALSE]

\* hex(x).removeprefix("0x").rjust(4, "0")
HexGroupPadded(x) == [kind |-> "hex", value |-> x, width |-> 4, upper |-> FALSE]

\* str(byte)
DecGroup(x) == [kind |-> "dec", value |-> x]

\* sep.join(groups), every group being one token
RECURSIVE Join(_, _)
Join(groups, sep) ==
    IF Len(groups) = 0 THEN <<>>
    ELSE IF Len(groups) = 1 THEN <<groups[1]>>
    ELSE <<groups[1], sep>> \o Join(Tail(groups), sep)

\* result.upper() / result.lower()
SetCase(string, uppercase) ==
    [i \in 1 .. Len(string) |->
        IF string[i].kind = "hex" THEN [string[i] EXCEPT !.upper = uppercase]
        ELSE string[i]]

\* IPv6_Address(segments, dual) as parse builds it: the 8 segments and the
\* dual flag (the 128-bit addressInt is int(segments)).
IPv6_Address_fromSegments(segments, dual) ==
    [type |-> "IPv6", segments |-> segments, dual |-> dual]

\* addressInt & 0xffffffff: every segment is below 2^16, so the low 32 bits
\* of int(segments) are the last two segments.
ipv4_part(self) == self.segments[7] * 65536 + self.segments[8]

\* IPv4_Address.toString of the 4 bytes of a 32-bit value, big-endian.
IPv4_toString(addressInt) ==
    Join(<<DecGroup((addressInt \div 16777216) % 256),
           DecGroup((addressInt \div 65536) % 256),
           DecGroup((addressInt \div 256) % 256),
           DecGroup(addressInt % 256)>>, Dot)

\* The loop of findLongestZeroSegmentString from Python index i on; an index
\* of -1 stands for None.
RECURSIVE ZeroScan(_, _, _)
ZeroScan(segments, i, st) ==
    IF i > Len(segments) THEN st
    ELSE IF i < Len(segments) /\ segments[i + 1] = 0
    THEN ZeroScan(segments, i + 1,
            [st EXCEPT !.currentZeros = st.currentZeros + 1,
                       !.currentZerosIndex =
                            IF st.currentZerosIndex = -1 THEN i ELSE st.currentZerosIndex])
    ELSE IF st.currentZeros > 0
    THEN ZeroScan(segments, i + 1,
            [maxZeros |-> IF st.currentZeros > st.maxZeros THEN st.currentZeros
                          ELSE st.maxZeros,
             maxZerosIndex |-> IF st.currentZeros > st.maxZeros THEN st.currentZerosIndex
                               ELSE st.maxZerosIndex,
             currentZeros |-> 0,
             currentZerosIndex |-> -1])
    ELSE ZeroScan(segments, i + 1, st)

findLongestZeroSegmentString(segments) ==
    LET st == ZeroScan(segments, 0,
                  [maxZeros |-> 0, maxZerosIndex |-> -1,
                   currentZeros |-> 0, currentZerosIndex |-> -1])
    IN  [index |-> st.maxZerosIndex, length |-> st.maxZeros]

\* IPv6_Address.__toHex
toHex(numbers) == [i \in 1 .. Len(numbers) |-> HexGroup(numbers[i])]

\* segments[:n] of a Python list
Slice(seq, n) == SubSeq(seq, 1, IF n < Len(seq) THEN n ELSE Len(seq))

\* IPv6_Address.__getCompressed
getCompressed(self, dual) ==
    LET end == IF ~dual THEN 8 ELSE 6
        segments == Slice(self.segments, end)
        z == findLongestZeroSegmentString(segments)
    IN  IF z.index = -1 \/ z.length < 2
        THEN Join(toHex(segments), Colon)
        ELSE LET left  == Join(toHex(Slice(segments, z.index)), Colon)
                 right == Join(toHex(SubSeq(segments, z.index + z.length + 1,
                                            Len(segments))), Colon)
             IN  IF Len(left) > 0 /\ Len(right) > 0
                 THEN left \o <<Colon, Colon>> \o right
                 ELSE IF Len(left) = 0 THEN <<Colon, Colon>> \o right
                 ELSE left \o <<Colon, Colon>>

\* IPv6_Address.__getFull: the slice is self.__segments[: end + 1]
getFull(self, dual) ==
    LET end == IF ~dual THEN 8 ELSE 6
        segments == Slice(self.segments, end + 1)
    IN  Join([i \in 1 .. Len(segments) |-> HexGroupPadded(segments[i])], Colon)

\* outDual of IPv6_Address.toString
OutDual(self, dualOutputMode) ==
    (self.dual /\ dualOutputMode = "VALUE_DEPENDENT") \/ dualOutputMode = "FORCE_DUAL"

IPv6_toString(self, compressed, uppercase, dualOutputMode) ==
    LET outDual == OutDual(self, dualOutputMode)
        result1 == IF compressed THEN getCompressed(self, outDual)
                   ELSE getFull(self, outDual)
        result2 == SetCase(result1, uppercase)
    IN  IF outDual
        THEN (IF Len(result2) > 0 /\ result2[Len(result2)] = Colon
              THEN result2 ELSE Append(result2, Colon))
             \o IPv4_toString(ipv4_part(self))
        ELSE result2

\* ---------------------------------- src/address.py: the rendering caller
\* Segment values (below 2^15, so that ipv4_part stays a 32-bit signed value).
SegmentValues == {0, 16385}
DualOutputModes == {"FORCE_NORMAL", "VALUE_DEPENDENT", "FORCE_DUAL"}

RenderInit ==
    /\ masksForPrefixes = EmptyCache
    /\ pc = "unused"
    /\ blocks = <<>>
    /\ inputBlocks = <<>>
    /\ index = 0
    /\ lpc = "unused"
    /\ block1 = None
    /\ block2 = None
    /\ merged12 = NotCalled
    /\ merged21 = NotCalled
    /\ lastCall = NotCalled
    /\ rpc = "new"
    /\ address6 = None
    /\ renderArgs = NotCalled
    /\ rendered = <<>>

\* IPv6_Address(segments, dual)
NewAddress(segments, dual) ==
    /\ rpc = "new"
    /\ address6' = IPv6_Address_fromSegments(segments, dual)
    /\ rpc' = "built"
    /\ UNCHANGED <<masksForPrefixes, progVars, libVars, renderArgs, rendered>>

\* address.toString(compressed, uppercase, dualOutputMode)
CallToString(compressed, uppercase, dualOutputMode) ==
    /\ rpc = "built"
    /\ rendered' = IPv6_toString(address6, compressed, uppercase, dualOutputMode)
    /\ renderArgs' = [kind |-> "toString", compressed |-> compressed,
                      uppercase |-> uppercase, dualOutputMode |-> dualOutputMode]
    /\ rpc' = "rendered"
    /\ UNCHANGED <<masksForPrefixes, progVars, libVars, address6>>

RenderNext ==
    \/ \E segments \in [1 .. 8 -> SegmentValues], d \in BOOLEAN : NewAddress(segments, d)
    \/ \E c \in BOOLEAN, u \in BOOLEAN, m \in DualOutputModes : CallToString(c, u, m)

SpecRender == RenderInit /\ [][RenderNext]_vars

\* ---------------------------------------------- properties: the rendering
\* The hexadecimal groups of a string, in order.
HexValues(string) ==
    LET IsHex(t) == t.kind = "hex"
        groups == SelectSeq(string, IsHex)
    IN  [i \in 1 .. Len(groups) |-> groups[i].value]

\* seq without a run of n zero segments that starts after position i.
IsWithoutZeroRun(values, seq) ==
    \E i \in 0 .. Len(seq), n \in 0 .. Len(seq) :
        /\ i + n <= Len(seq)
        /\ \A k \in (i + 1) .. (i + n) : seq[k] = 0
        /\ values = SubSeq(seq, 1, i) \o SubSeq(seq, i + n + 1, Len(seq))

\* ":" and the dotted-decimal form of the last two segments.
DualSuffix(segments) ==
    <<Colon,
      DecGroup(segments[7] \div 256), Dot, DecGroup(segments[7] % 256), Dot,
      DecGroup(segments[8] \div 256), Dot, DecGroup(segments[8] % 256)>>

\* C11: a dual rendering, compressed or exploded, has as its hexadecimal
\* groups the first 6 segments only (less the compressed zero run), and the
\* low 32 bits appear only as the dotted-decimal suffix after a final ":".
C11_DualRendersSixSegments ==
    (rpc = "rendered" /\ OutDual(address6, renderArgs.dualOutputMode)) =>
        /\ Len(HexValues(rendered)) <= 6
        /\ IF renderArgs.compressed
           THEN IsWithoutZeroRun(HexValues(rendered), SubSeq(address6.segments, 1, 6))
           ELSE HexValues(rendered) = SubSeq(address6.segments, 1, 6)
        /\ Len(rendered) >= 8
        /\ SubSeq(rendered, Len(rendered) - 7, Len(rendered)) = DualSuffix(address6.segments)

====
